---- MODULE Spec2Model ----
(***************************************************************************)
(* Model of gurobi_ml/torch/sequential.py: embedding a torch.nn.Sequential *)
(* network into a gurobipy model (SequentialConstr) and get_error().       *)
(*                                                                         *)
(* Numbers are integers.  The solver's values (double precision) are exact *)
(* integers; the conversion `.float()` of line 137 is modelled by ToFloat, *)
(* rounding to a MantBits-bit significand (24 bits in IEEE single, scaled  *)
(* down here).  The network's forward evaluation is taken as the network's *)
(* mathematical function; the tensor library's internal rounding is not    *)
(* part of this repository and is not modelled.                            *)
(***************************************************************************)
EXTENDS Integers, Sequences, FiniteSets, TLC

\* ---------------------------------------------------------------- bounds
MaxLayers == 3
MaxRows == 2
MaxCalls == 2
MantBits == 3

\* ------------------------------------------------------- python values
\* An optional value (None / a value) is a sequence of length 0 or 1, and an
\* unbound local variable is represented the same way.
None == <<>>
Some(v) == <<v>>
IsNone(o) == o = <<>>
Get(o) == o[1]

Max(a, b) == IF a >= b THEN a ELSE b
Abs(a) == IF a >= 0 THEN a ELSE -a

RECURSIVE SumTo(_, _)
SumTo(f, k) == IF k = 0 THEN 0 ELSE f[k] + SumTo(f, k - 1)

\* A function on 1..n as the sequence of its values, each computed once.
AsList(f) == SubSeq(f, 1, Len(f))

\* A 2-D array is a sequence of rows.
Rows(a) == Len(a)
Cols(a) == IF Len(a) = 0 THEN 0 ELSE Len(a[1])
Shape(a) == <<Rows(a), Cols(a)>>

\* ------------------------------------------------------------- floats
RECURSIVE Shift(_, _)
Shift(a, s) == IF a < 2 ^ (MantBits + s) THEN s ELSE Shift(a, s + 1)

\* numpy float64 -> torch float32 (round to nearest, ties to even).
ToFloat(x) ==
    LET a == Abs(x)
        s == Shift(a, 0)
        q == a \div (2 ^ s)
        r == a % (2 ^ s)
        up == IF s = 0 THEN 0
              ELSE IF 2 * r > 2 ^ s \/ (2 * r = 2 ^ s /\ q % 2 = 1) THEN 1 ELSE 0
        m == (q + up) * (2 ^ s)
    IN  IF x >= 0 THEN m ELSE -m

ToFloatArr(a) ==
    AsList([r \in 1..Rows(a) |-> AsList([c \in 1..Cols(a) |-> ToFloat(a[r][c])])])

\* ---------------------------------------------------------- the network
\* torch.nn layers.  A Linear layer stores weight as [out_features][in_features];
\* Linear(bias=False) has no bias parameter.
Linear(w, b) == [kind |-> "Linear", weight |-> w, bias |-> b]
ReLU == [kind |-> "ReLU", weight |-> <<>>, bias |-> None]
BatchNorm1d == [kind |-> "BatchNorm1d", weight |-> <<>>, bias |-> None]
Sigmoid == [kind |-> "Sigmoid", weight |-> <<>>, bias |-> None]

\* Module.named_parameters(): the registered, non-None parameters in order.
named_parameters(step) ==
    IF step.kind # "Linear" THEN <<>>
    ELSE IF IsNone(step.bias) THEN <<[name |-> "weight", param |-> step.weight]>>
    ELSE <<[name |-> "weight", param |-> step.weight],
           [name |-> "bias", param |-> Get(step.bias)]>>

\* One layer's evaluation on a batch x (rows = samples).
LayerForward(step, x) ==
    IF step.kind = "Linear" THEN
        AsList([r \in 1..Rows(x) |-> AsList([o \in 1..Len(step.weight) |->
            SumTo([j \in 1..Cols(x) |-> x[r][j] * step.weight[o][j]], Cols(x))
            + (IF IsNone(step.bias) THEN 0 ELSE Get(step.bias)[o])])])
    ELSE IF step.kind = "ReLU" THEN
        AsList([r \in 1..Rows(x) |-> AsList([c \in 1..Cols(x) |-> Max(0, x[r][c])])])
    ELSE x

RECURSIVE ForwardFrom(_, _, _)
ForwardFrom(net, x, k) ==
    IF k > Len(net) THEN x ELSE ForwardFrom(net, LayerForward(net[k], x), k + 1)

\* Sequential.forward
Forward(net, x) == ForwardFrom(net, x, 1)

\* ------------------------------------------------------ the solver model
\* A gurobipy model: variables 1..numVars, a list of constraints, and the
\* solution of the last optimize() (X[v] is the value of variable v).
\*   identity: out = sum(terms) + const      relu: out = max(0, sum(terms) + const)
\*   ge: out >= const                        le: out <= const
Constr(kind, out, terms, const) ==
    [kind |-> kind, out |-> out, terms |-> terms, const |-> const]

\* gurobipy addMVar: an n x k array of new variables numbered after `base`.
NewArray(base, n, k) == [r \in 1..n |-> [c \in 1..k |-> base + (r - 1) * k + c]]

ArrayVars(a) == {a[r][c] : r \in 1..Rows(a), c \in 1..Cols(a)}

\* MVar.X: the solution values of an array of variables.
ValuesOf(X, a) ==
    AsList([r \in 1..Rows(a) |-> AsList([c \in 1..Cols(a) |-> X[a[r][c]]])])

LinValue(c, X) ==
    SumTo([t \in 1..Len(c.terms) |-> c.terms[t][2] * X[c.terms[t][1]]], Len(c.terms))
    + c.const

Satisfies(c, X) ==
    CASE c.kind = "identity" -> X[c.out] = LinValue(c, X)
      [] c.kind = "relu" -> X[c.out] = Max(0, LinValue(c, X))
      [] c.kind = "ge" -> X[c.out] >= c.const
      [] c.kind = "le" -> X[c.out] <= c.const

Feasible(constrs, X) == \A k \in 1..Len(constrs) : Satisfies(constrs[k], X)

Defining(c) == c.kind \in {"identity", "relu"}

\* Variables no embedding constraint defines: the solver is free to choose them.
FreeVars(m) ==
    {v \in 1..m.numVars :
        \A k \in 1..Len(m.constrs) : Defining(m.constrs[k]) => m.constrs[k].out # v}

RECURSIVE Propagate(_, _, _)
Propagate(constrs, X, k) ==
    IF k > Len(constrs) THEN X
    ELSE IF Defining(constrs[k])
    THEN Propagate(constrs,
                   [X EXCEPT ![constrs[k].out] =
                       IF constrs[k].kind = "relu"
                       THEN Max(0, LinValue(constrs[k], X))
                       ELSE LinValue(constrs[k], X)],
                   k + 1)
    ELSE Propagate(constrs, X, k + 1)

\* Values the solver may give a free variable: the two of the ReLU example
\* and one that single precision cannot represent.
XVals == {-2, 3, 2 ^ MantBits + 1}

\* The feasible points of the model with its free variables in XVals.
Solutions(m) ==
    LET free == FreeVars(m)
        points == {Propagate(m.constrs,
                             [v \in 1..m.numVars |-> IF v \in free THEN a[v] ELSE 0], 1) :
                      a \in [free -> XVals]}
    IN  {X \in points : Feasible(m.constrs, X)}

\* ------------------------------------- BaseNNConstr (gurobi_ml.modeling)
actdict == [relu |-> "relu", identity |-> "identity"]

Layer(type, input, output, coefs, intercept, activation, name, first, count, newVars) ==
    [type |-> type, input |-> input, output |-> output, coefs |-> coefs,
     intercept |-> intercept, activation |-> activation, name |-> name,
     firstConstr |-> first, numConstrs |-> count, numNewVars |-> newVars]

NoLayer == Layer("", <<>>, <<>>, <<>>, <<>>, "", 0, 0, 0, 0)

Encoded(ok, m, layer) == [ok |-> ok, gp_model |-> m, layer |-> layer]

\* BaseNNConstr.add_dense_layer: output = input @ coefs + intercept,
\* one equality per (row, column); the output array is created when not given.
add_dense_layer(m, input, coefs, intercept, activation, output, name) ==
    LET n == Rows(input)
        k_in == Cols(input)
        k_out == Cols(coefs)
        fresh == IsNone(output)
        out == IF fresh THEN NewArray(m.numVars, n, k_out) ELSE Get(output)
        fits == /\ Rows(coefs) = k_in
                /\ Len(intercept) = k_out
                /\ Shape(out) = <<n, k_out>>
        new == [e \in 1..(n * k_out) |->
                   LET r == ((e - 1) \div k_out) + 1
                       c == ((e - 1) % k_out) + 1
                   IN  Constr(activation, out[r][c],
                              [j \in 1..k_in |-> <<input[r][j], coefs[j][c]>>],
                              intercept[c])]
    IN  IF ~fits THEN Encoded(FALSE, m, NoLayer)
        ELSE Encoded(TRUE,
                     [m EXCEPT !.numVars = IF fresh THEN @ + n * k_out ELSE @,
                               !.constrs = @ \o new],
                     Layer("dense", input, out, coefs, intercept, activation, name,
                           Len(m.constrs) + 1, n * k_out,
                           IF fresh THEN n * k_out ELSE 0))

\* BaseNNConstr.add_activation_layer: output = activation(input), element-wise.
add_activation_layer(m, input, activation, output, name) ==
    LET n == Rows(input)
        k == Cols(input)
        fresh == IsNone(output)
        out == IF fresh THEN NewArray(m.numVars, n, k) ELSE Get(output)
        fits == Shape(out) = <<n, k>>
        new == [e \in 1..(n * k) |->
                   LET r == ((e - 1) \div k) + 1
                       c == ((e - 1) % k) + 1
                   IN  Constr(activation, out[r][c], <<<<input[r][c], 1>>>>, 0)]
    IN  IF ~fits THEN Encoded(FALSE, m, NoLayer)
        ELSE Encoded(TRUE,
                     [m EXCEPT !.numVars = IF fresh THEN @ + n * k ELSE @,
                               !.constrs = @ \o new],
                     Layer("activation", input, out, <<>>, <<>>, activation, name,
                           Len(m.constrs) + 1, n * k, IF fresh THEN n * k ELSE 0))

\* AbstractPredictorConstr._has_solution
_has_solution(m) == m.status = "optimal"

\* ------------------------------------------------ SequentialConstr (source)
\* isinstance(step, nn.ReLU) / isinstance(step, nn.Linear)
IsSupported(step) == step.kind = "ReLU" \/ step.kind = "Linear"

RECURSIVE FirstUnsupported(_, _)
FirstUnsupported(net, k) ==
    IF k > Len(net) THEN 0
    ELSE IF IsSupported(net[k]) THEN FirstUnsupported(net, k + 1)
    ELSE k

Validate_FirstLayerOnly(net) ==
    IF Len(net) > 0 /\ ~IsSupported(net[1]) THEN 1 ELSE 0

\* __init__'s validation loop: the position of the layer it raises NoModel
\* for, 0 when it raises for none.
Validate(net) == FirstUnsupported(net, 1)

OutputArg_EveryLayer(i, numlayers, output, self_output) == self_output

\* The local `output` after the test at the head of the loop body.
OutputArg(i, numlayers, output, self_output) ==
    IF i = numlayers - 1 THEN self_output ELSE output

ActivationArg_AlwaysIdentity(step) == actdict["identity"]

\* The activation handed to the encoder for a layer.
ActivationArg(step) ==
    IF step.kind = "ReLU" THEN actdict["relu"] ELSE actdict["identity"]

Transpose_Missing(w) == w

\* param.detach().numpy().T
Transpose(w) == [j \in 1..Cols(w) |-> [c \in 1..Rows(w) |-> w[c][j]]]

\* The loop over step.named_parameters(): the locals layer_weight and
\* layer_bias after it, each kept as it was when no parameter has its name.
RECURSIVE ExtractFrom(_, _, _, _)
ExtractFrom(params, k, layer_weight, layer_bias) ==
    IF k > Len(params)
    THEN [layer_weight |-> layer_weight, layer_bias |-> layer_bias]
    ELSE IF params[k].name = "weight"
    THEN ExtractFrom(params, k + 1, Some(Transpose(params[k].param)), layer_bias)
    ELSE IF params[k].name = "bias"
    THEN ExtractFrom(params, k + 1, layer_weight, Some(params[k].param))
    ELSE ExtractFrom(params, k + 1, layer_weight, layer_bias)

ExtractParams(step, layer_weight, layer_bias) ==
    ExtractFrom(named_parameters(step), 1, layer_weight, layer_bias)

FinalOutput_NotRecorded(self_output, layer_output) == self_output

\* self._output after `if self._output is None: self._output = layer.output`.
FinalOutput(self_output, layer_output) ==
    IF IsNone(self_output) THEN Some(layer_output) ELSE self_output

Outcome(raised, value, obj, m, net) ==
    [raised |-> raised, value |-> value, self |-> obj, gp_model |-> m,
     predictor |-> net]

ErrorOf(t_out, y) ==
    AsList([r \in 1..Rows(y) |-> AsList([c \in 1..Cols(y) |-> t_out[r][c] - y[r][c]])])

get_error_NeverRaises(obj, m, net) ==
    Outcome("", IF _has_solution(m)
                THEN ErrorOf(Forward(net, ToFloatArr(ValuesOf(m.X, obj._input))),
                             ValuesOf(m.X, Get(obj._output)))
                ELSE [r \in 1..Rows(obj._input) |-> <<0>>],
            obj, m, net)

get_error_Swapped(obj, m, net) ==
    IF _has_solution(m)
    THEN Outcome("",
                 ErrorOf(ValuesOf(m.X, Get(obj._output)),
                         Forward(net, ToFloatArr(ValuesOf(m.X, obj._input)))),
                 obj, m, net)
    ELSE Outcome("NoSolution", <<>>, obj, m, net)

get_error_Reoptimizes(obj, m, net) ==
    IF _has_solution(m)
    THEN Outcome("",
                 ErrorOf(Forward(net, ToFloatArr(ValuesOf(m.X, obj._input))),
                         ValuesOf(m.X, Get(obj._output))),
                 obj, [m EXCEPT !.status = "loaded", !.X = <<>>], net)
    ELSE Outcome("NoSolution", <<>>, obj, m, net)

\* SequentialConstr.get_error: what it raises or returns, and the objects it
\* was called on as it leaves them.
get_error(obj, m, net) ==
    IF _has_solution(m)
    THEN LET t_in == ToFloatArr(ValuesOf(m.X, obj._input))
             t_out == Forward(net, t_in)
         IN  Outcome("", ErrorOf(t_out, ValuesOf(m.X, Get(obj._output))), obj, m, net)
    ELSE Outcome("NoSolution", <<>>, obj, m, net)

\* -------------------------------------------------------------- inputs
\* Layers of width 1 the networks are built from: an affine layer, an
\* affine layer without bias, the activation, and a layer kind the embedding
\* does not support.  LinC is the identity as an affine layer.
LinA == Linear(<<<<2>>>>, Some(<<1>>))
LinB == Linear(<<<<-1>>>>, None)
LinC == Linear(<<<<1>>>>, Some(<<0>>))
LayerPool == {LinA, LinB, ReLU, BatchNorm1d}

Net(layers, k_in, k_out) == [layers |-> layers, k_in |-> k_in, k_out |-> k_out]

\* Further networks: the identity, two affine layers with different biases,
\* the 2 -> 3 affine layer, a square one whose weight is not symmetric, a
\* small perceptron, an affine layer without bias after a wider one, and two
\* different unsupported kinds.
WideNetworks ==
    {Net(<<LinC>>, 1, 1),
     Net(<<LinA, LinC>>, 1, 1),
     Net(<<Linear(<<<<1, 2>>, <<0, -1>>, <<3, 1>>>>, Some(<<1, 0, -1>>))>>, 2, 3),
     Net(<<Linear(<<<<1, 2>>, <<0, 1>>>>, Some(<<0, 1>>))>>, 2, 2),
     Net(<<Linear(<<<<1>>, <<-1>>>>, Some(<<0, 1>>)), ReLU,
           Linear(<<<<1, 2>>>>, Some(<<-1>>))>>, 1, 1),
     Net(<<Linear(<<<<1>>, <<-1>>>>, Some(<<0, 1>>)), Linear(<<<<1, 2>>>>, None)>>, 1, 1),
     Net(<<LinA, Sigmoid, ReLU, BatchNorm1d>>, 1, 1)}

Networks ==
    {Net(l, 1, 1) : l \in UNION {[1..k -> LayerPool] : k \in 0..MaxLayers}}
    \cup WideNetworks

\* Constraints the caller's model already holds: none, or bounds on the
\* first input variable that no value satisfies.
CallerConstrs ==
    {<<>>, <<Constr("ge", 1, <<>>, 1), Constr("le", 1, <<>>, 0)>>}

\* --------------------------------------------------------------- state
VARIABLES
    predictor,      \* the torch network: its layers in order
    caller,         \* the caller's input_vars and output_vars (None when not given)
    gp_model,       \* the gurobipy model
    gp_before,      \* gp_model as it was when the constructor was called
    self,           \* the SequentialConstr object
    frame,          \* the local variables of _mip_model
    pc,             \* uninitialized, embedding, embedded, errored, failed
    error,          \* the exception the constructor raised
    encoderCalls,   \* the arguments of each add_*_layer call, in order
    calls           \* the outcome of each get_error() call, in order

vars == <<predictor, caller, gp_model, gp_before, self, frame, pc, error,
          encoderCalls, calls>>

NoSelf == [constructed |-> FALSE, _input |-> <<>>, _output |-> None,
           layers |-> <<>>, default_name |-> ""]

NoFrame == [_input |-> <<>>, output |-> None, numlayers |-> 0, i |-> 0,
            layer_weight |-> None, layer_bias |-> None, layer |-> None]

NoError == [type |-> "", msg |-> ""]

Init ==
    \E net \in Networks, n \in 1..MaxRows, given \in BOOLEAN, cc \in CallerConstrs :
        /\ predictor = net.layers
        /\ caller = [input_vars |-> NewArray(0, n, net.k_in),
                     output_vars |-> IF given
                                     THEN Some(NewArray(n * net.k_in, n, net.k_out))
                                     ELSE None]
        /\ gp_model = [numVars |-> n * net.k_in + (IF given THEN n * net.k_out ELSE 0),
                       constrs |-> cc, status |-> "loaded", X |-> <<>>]
        /\ gp_before = gp_model
        /\ self = NoSelf
        /\ frame = NoFrame
        /\ pc = "uninitialized"
        /\ error = NoError
        /\ encoderCalls = <<>>
        /\ calls = <<>>

\* ------------------------------------------------------------- actions
\* add_sequential_constr / SequentialConstr.__init__: the validation loop,
\* then the base constructor, which stores the arguments and enters
\* _mip_model (its first four statements).
Construct ==
    /\ pc = "uninitialized"
    /\ LET bad == Validate(predictor)
       IN  IF bad # 0
           THEN /\ pc' = "errored"
                /\ error' = [type |-> "NoModel", msg |-> predictor[bad].kind]
                /\ UNCHANGED <<self, frame>>
           ELSE /\ pc' = "embedding"
                /\ self' = [constructed |-> TRUE, _input |-> caller.input_vars,
                            _output |-> caller.output_vars, layers |-> <<>>,
                            default_name |-> "torchsequential"]
                /\ frame' = [NoFrame EXCEPT !._input = caller.input_vars,
                                            !.output = None,
                                            !.numlayers = Len(predictor)]
                /\ error' = NoError
    /\ UNCHANGED <<predictor, caller, gp_model, gp_before, encoderCalls, calls>>

EncoderCall(fn, i, input, weight, bias, activation, output) ==
    [fn |-> fn, name |-> i, input |-> input, weight |-> weight, bias |-> bias,
     activation |-> activation, output |-> output]

Fail(type, msg) ==
    /\ pc' = "failed"
    /\ error' = [type |-> type, msg |-> msg]

\* One iteration of the loop of _mip_model, for the layer at index frame.i.
MipStep ==
    /\ pc = "embedding"
    /\ frame.i < frame.numlayers
    /\ LET i == frame.i
           step == predictor[i + 1]
           output == OutputArg(i, frame.numlayers, frame.output, self._output)
           p == ExtractParams(step, frame.layer_weight, frame.layer_bias)
       IN  IF step.kind = "ReLU"
           THEN LET e == add_activation_layer(gp_model, frame._input,
                                              ActivationArg(step), output, i)
                IN  /\ encoderCalls' = Append(encoderCalls,
                           EncoderCall("add_activation_layer", i, frame._input,
                                       None, None, ActivationArg(step), output))
                    /\ IF e.ok
                       THEN /\ gp_model' = e.gp_model
                            /\ self' = [self EXCEPT !.layers = Append(@, e.layer)]
                            /\ frame' = [frame EXCEPT !.i = i + 1,
                                                      !.output = output,
                                                      !.layer = Some(e.layer),
                                                      !._input = e.layer.output]
                            /\ UNCHANGED <<pc, error>>
                       ELSE /\ Fail("DimensionMismatch", "add_activation_layer")
                            /\ frame' = [frame EXCEPT !.output = output]
                            /\ UNCHANGED <<gp_model, self>>
           ELSE IF step.kind = "Linear"
           THEN IF IsNone(p.layer_weight) \/ IsNone(p.layer_bias)
                THEN /\ Fail("UnboundLocalError",
                             IF IsNone(p.layer_weight) THEN "layer_weight"
                             ELSE "layer_bias")
                     /\ frame' = [frame EXCEPT !.output = output,
                                               !.layer_weight = p.layer_weight,
                                               !.layer_bias = p.layer_bias]
                     /\ UNCHANGED <<gp_model, self, encoderCalls>>
                ELSE LET e == add_dense_layer(gp_model, frame._input,
                                              Get(p.layer_weight), Get(p.layer_bias),
                                              ActivationArg(step), output, i)
                     IN  /\ encoderCalls' = Append(encoderCalls,
                                EncoderCall("add_dense_layer", i, frame._input,
                                            p.layer_weight, p.layer_bias,
                                            ActivationArg(step), output))
                         /\ IF e.ok
                            THEN /\ gp_model' = e.gp_model
                                 /\ self' = [self EXCEPT !.layers = Append(@, e.layer)]
                                 /\ frame' = [frame EXCEPT
                                                 !.i = i + 1,
                                                 !.output = output,
                                                 !.layer_weight = p.layer_weight,
                                                 !.layer_bias = p.layer_bias,
                                                 !.layer = Some(e.layer),
                                                 !._input = e.layer.output]
                                 /\ UNCHANGED <<pc, error>>
                            ELSE /\ Fail("DimensionMismatch", "add_dense_layer")
                                 /\ frame' = [frame EXCEPT
                                                 !.output = output,
                                                 !.layer_weight = p.layer_weight,
                                                 !.layer_bias = p.layer_bias]
                                 /\ UNCHANGED <<gp_model, self>>
           ELSE /\ frame' = [frame EXCEPT !.i = i + 1, !.output = output]
                /\ UNCHANGED <<gp_model, self, pc, error, encoderCalls>>
    /\ UNCHANGED <<predictor, caller, gp_before, calls>>

\* The statement after the loop, and the return of the constructor.
MipFinish ==
    /\ pc = "embedding"
    /\ frame.i = frame.numlayers
    /\ IF IsNone(self._output) /\ IsNone(frame.layer)
       THEN /\ Fail("UnboundLocalError", "layer")
            /\ UNCHANGED self
       ELSE /\ pc' = "embedded"
            /\ self' = [self EXCEPT !._output =
                           IF IsNone(frame.layer) THEN @
                           ELSE FinalOutput(@, Get(frame.layer).output)]
            /\ UNCHANGED error
    /\ UNCHANGED <<predictor, caller, gp_model, gp_before, frame, encoderCalls, calls>>

\* The caller's gp_model.optimize() after the embedding.
Optimize ==
    /\ pc = "embedded"
    /\ gp_model.status = "loaded"
    /\ IF Solutions(gp_model) = {}
       THEN gp_model' = [gp_model EXCEPT !.status = "infeasible"]
       ELSE \E X \in Solutions(gp_model) :
                gp_model' = [gp_model EXCEPT !.status = "optimal", !.X = X]
    /\ UNCHANGED <<predictor, caller, gp_before, self, frame, pc, error,
                   encoderCalls, calls>>

\* The caller's get_error().
GetError ==
    /\ pc = "embedded"
    /\ Len(calls) < MaxCalls
    /\ LET o == get_error(self, gp_model, predictor)
       IN  /\ calls' = Append(calls, [raised |-> o.raised, value |-> o.value])
           /\ self' = o.self
           /\ gp_model' = o.gp_model
           /\ predictor' = o.predictor
    /\ UNCHANGED <<caller, gp_before, frame, pc, error, encoderCalls>>

Next == Construct \/ MipStep \/ MipFinish \/ Optimize \/ GetError

Spec == Init /\ [][Next]_vars

\* -------------------------------------------------------------- claims
Unsupported(net) == {k \in 1..Len(net) : net[k].kind \notin {"Linear", "ReLU"}}

Zeros(a) == [r \in 1..Rows(a) |-> [c \in 1..Cols(a) |-> 0]]

LastCall == calls[Len(calls)]

\* C1: a network with a layer that is neither Linear nor ReLU, at any
\* position, makes the constructor raise NoModel naming the kind of the
\* (first) offending layer, with the solver model exactly as it was before
\* the call: no encoder has been called and no layer embedded.
C1_UnsupportedLayerRejectedBeforeEmbedding ==
    (pc # "uninitialized" /\ Unsupported(predictor) # {}) =>
        /\ pc = "errored"
        /\ error.type = "NoModel"
        /\ \E k \in Unsupported(predictor) :
              /\ \A j \in Unsupported(predictor) : k <= j
              /\ error.msg = predictor[k].kind
        /\ gp_model = gp_before
        /\ encoderCalls = <<>>
        /\ self = NoSelf

C1_Witness ==
    /\ pc = "errored"
    /\ Len(predictor) = 3
    /\ predictor[1].kind = "Linear"
    /\ predictor[2].kind = "ReLU"
    /\ predictor[3].kind = "BatchNorm1d"
    /\ error.msg = "BatchNorm1d"
    /\ gp_before.constrs # <<>>

\* C2 (as claimed): for every network of Linear and ReLU layers only, of any
\* length, the constructor succeeds with one layer embedding per network
\* layer, in order, the output of each being the input of the next.
C2_EveryAcceptedNetworkIsEmbedded ==
    (Unsupported(predictor) = {} /\ pc \in {"embedded", "failed"}) =>
        /\ pc = "embedded"
        /\ Len(self.layers) = Len(predictor)
        /\ \A k \in 1..Len(self.layers) :
              /\ self.layers[k].name = k - 1
              /\ self.layers[k].type =
                    (IF predictor[k].kind = "Linear" THEN "dense" ELSE "activation")
        /\ \A k \in 1..(Len(self.layers) - 1) :
              self.layers[k].output = self.layers[k + 1].input

\* C3: after a successful construction the first layer embedding's input is
\* the caller's input array and the last one's output is the object's output:
\* the caller's output array when given, otherwise an array the last encoder
\* created, recorded as the object's output, which is never left unset.
C3_EndsAreCallerInputAndObjectOutput ==
    pc = "embedded" =>
        /\ ~IsNone(self._output)
        /\ self._input = caller.input_vars
        /\ Len(self.layers) > 0 =>
              LET last == self.layers[Len(self.layers)]
              IN  /\ self.layers[1].input = caller.input_vars
                  /\ last.output = Get(self._output)
                  /\ IF IsNone(caller.output_vars)
                     THEN /\ last.numNewVars = Rows(last.output) * Cols(last.output)
                          /\ \A v \in ArrayVars(last.output) : v > gp_before.numVars
                     ELSE /\ Get(self._output) = Get(caller.output_vars)
                          /\ last.numNewVars = 0

C3_Witness ==
    /\ pc = "embedded"
    /\ IsNone(caller.output_vars)
    /\ Len(self.layers) = 3
    /\ self.layers[1].input = caller.input_vars
    /\ Get(self._output) = self.layers[3].output

\* C4: get_error() on a model that holds no solution (never optimized, or
\* infeasible) raises NoSolution and returns no value; on a model solved to
\* a feasible solution it returns a value.
C4_NoSolutionRaisedUntilSolved ==
    [][calls' # calls =>
          LET o == calls'[Len(calls')]
          IN  IF gp_model.status = "optimal"
              THEN o.raised = "" /\ Shape(o.value) = Shape(Get(self._output))
              ELSE o.raised = "NoSolution" /\ o.value = <<>>]_vars

C4_Witness ==
    /\ Len(calls) = 2
    /\ calls[1].raised = "NoSolution"
    /\ calls[2].raised = ""
    /\ gp_model.status = "optimal"

C6_SingleAffineLayerEncoding ==
    (pc = "embedded" /\ Len(predictor) = 1 /\ predictor[1].kind = "Linear") =>
        LET stored == predictor[1].weight
            b == Get(predictor[1].bias)
            x == caller.input_vars
            out == Get(self._output)
            n == Rows(x)
            k_in == Cols(x)
            k_out == Len(stored)
            old == Len(gp_before.constrs)
            added == (old + 1)..Len(gp_model.constrs)
        IN  /\ gp_model.numVars - gp_before.numVars =
                  (IF IsNone(caller.output_vars) THEN n * k_out ELSE 0)
            /\ Len(gp_model.constrs) - old = n * k_out
            /\ Shape(out) = <<n, k_out>>
            /\ \A r \in 1..n : \A c \in 1..k_out :
                  Cardinality({e \in added :
                      gp_model.constrs[e] =
                          Constr("identity", out[r][c],
                                 [j \in 1..k_in |-> <<x[r][j], stored[c][j]>>],
                                 b[c])}) = 1

C6_Witness ==
    /\ pc = "embedded"
    /\ Len(predictor) = 1
    /\ Shape(predictor[1].weight) = <<3, 2>>
    /\ Shape(caller.input_vars) = <<1, 2>>
    /\ IsNone(caller.output_vars)
    /\ gp_model.numVars = gp_before.numVars + 3
    /\ Len(gp_model.constrs) = Len(gp_before.constrs) + 3

\* C7: every ReLU layer is embedded with the rectified-linear activation, so
\* that in every solution the solver returns each element of its output
\* is exactly max(0, input): never negative, 0 for a negative input, the
\* input itself otherwise.
C7_ReluIsExact ==
    pc = "embedded" =>
        \A k \in 1..Len(predictor) :
            predictor[k].kind = "ReLU" =>
                LET L == self.layers[k]
                    X == gp_model.X
                IN  /\ L.activation = "relu"
                    /\ gp_model.status = "optimal" =>
                          \A r \in 1..Rows(L.input) : \A c \in 1..Cols(L.input) :
                              /\ X[L.output[r][c]] >= 0
                              /\ X[L.input[r][c]] < 0 => X[L.output[r][c]] = 0
                              /\ X[L.input[r][c]] >= 0 =>
                                    X[L.output[r][c]] = X[L.input[r][c]]

C7_Witness ==
    /\ pc = "embedded"
    /\ predictor = <<ReLU>>
    /\ gp_model.status = "optimal"
    /\ ValuesOf(gp_model.X, self._input) = <<<<-2>>, <<3>>>>
    /\ ValuesOf(gp_model.X, Get(self._output)) = <<<<0>>, <<3>>>>

\* C8: the caller's output array is handed only to the encoder of the last
\* layer; every other encoder is called with no output, and the array it
\* creates is neither the caller's output nor the caller's input array.
C8_OutputOnlyToLastLayer ==
    \A k \in 1..Len(encoderCalls) :
        IF encoderCalls[k].name = Len(predictor) - 1
        THEN encoderCalls[k].output = caller.output_vars
        ELSE /\ IsNone(encoderCalls[k].output)
             /\ k <= Len(self.layers) =>
                   /\ self.layers[k].output # caller.input_vars
                   /\ Some(self.layers[k].output) # caller.output_vars
                   /\ self.layers[k].numNewVars > 0
                   /\ \A v \in ArrayVars(self.layers[k].output) :
                         v > gp_before.numVars

C8_Witness ==
    /\ pc = "embedded"
    /\ Len(encoderCalls) = 3
    /\ ~IsNone(caller.output_vars)
    /\ IsNone(encoderCalls[1].output)
    /\ IsNone(encoderCalls[2].output)
    /\ encoderCalls[3].output = caller.output_vars

\* C9: every step only appends variables and constraints to the solver
\* model, the network is never changed, construction leaves the solution
\* alone, and get_error(), raising or returning, leaves the solver model and
\* the embedding unchanged.
C9_AppendOnlyAndReadOnly ==
    [][/\ predictor' = predictor
       /\ gp_model'.numVars >= gp_model.numVars
       /\ Len(gp_model'.constrs) >= Len(gp_model.constrs)
       /\ SubSeq(gp_model'.constrs, 1, Len(gp_model.constrs)) = gp_model.constrs
       /\ pc = "embedding" =>
             /\ gp_model'.status = gp_model.status
             /\ gp_model'.X = gp_model.X
       /\ calls' # calls => (gp_model' = gp_model /\ self' = self)]_vars

C9_Witness ==
    /\ Len(calls) = 2
    /\ calls[1].raised = ""
    /\ calls[2].raised = ""
    /\ Len(self.layers) = 3
    /\ Len(gp_model.constrs) > 0

\* C10 (as claimed): the weight and bias handed to the affine encoder for a
\* Linear layer are that layer's own parameters (weight transposed, bias as
\* stored), never those extracted for an earlier layer, also when the layer
\* has no bias.
C10_OwnParametersOnly ==
    \A k \in 1..Len(encoderCalls) :
        encoderCalls[k].fn = "add_dense_layer" =>
            LET step == predictor[encoderCalls[k].name + 1]
            IN  /\ encoderCalls[k].weight =
                       Some([j \in 1..Cols(step.weight) |->
                               [c \in 1..Rows(step.weight) |-> step.weight[c][j]]])
                /\ encoderCalls[k].bias = step.bias

====
